---- MODULE Spec2Model ----
(***************************************************************************)
(* Zero-of-functions solver: the six root-finding routines of ZOF_CLI.py   *)
(* (bisection, regula_falsi, secant, newton_raphson, fixed_point,          *)
(* modified_secant), make_function, and the web handler index of app.py    *)
(* with its copies of bisection and secant and its inline Newton loop.     *)
(*                                                                         *)
(* Numbers are exact rationals <<n, d>> (d > 0, lowest terms): Python's    *)
(* float arithmetic is modelled by exact real arithmetic, so rounding,     *)
(* overflow to inf and underflow to 0.0 are outside the model.             *)
(* The value None is <<0, 0>>.                                             *)
(***************************************************************************)
EXTENDS Integers, Sequences, FiniteSets, TLC

\* ------------------------------------------------------------- bounds
\* largest max_iter a call is given
MaxIter == 3

\* ------------------------------------------------- exact real arithmetic
Abs(n) == IF n < 0 THEN -n ELSE n

RECURSIVE GCD(_, _)
GCD(m, n) == IF n = 0 THEN m ELSE GCD(n, m % n)

\* the rational n/d in lowest terms with a positive denominator (d # 0)
Norm(n, d) ==
    LET g == GCD(Abs(n), Abs(d))
        s == IF d < 0 THEN -1 ELSE 1
    IN  <<(s * n) \div g, (s * d) \div g>>

Rat(n) == <<n, 1>>
Zero == <<0, 1>>
None == <<0, 0>>
IsReal(v) == v[2] > 0

LCM(m, n) == (m \div GCD(m, n)) * n

\* The operators RAdd .. RDiv below take their operands as values: each
\* operand is computed once, as Python computes an operand.
AddValues(p, q) ==
    Norm(p[1] * (LCM(p[2], q[2]) \div p[2]) + q[1] * (LCM(p[2], q[2]) \div q[2]), LCM(p[2], q[2]))
SubValues(p, q) == AddValues(p, <<-q[1], q[2]>>)
\* the product, cancelling across before multiplying
MulValues(p, q) ==
    IF p[1] = 0 \/ q[1] = 0 THEN Zero
    ELSE <<(p[1] \div GCD(Abs(p[1]), q[2])) * (q[1] \div GCD(Abs(q[1]), p[2])),
           (p[2] \div GCD(Abs(q[1]), p[2])) * (q[2] \div GCD(Abs(p[1]), q[2]))>>
DivValues(p, q) == MulValues(p, IF q[1] < 0 THEN <<-q[2], -q[1]>> ELSE <<q[2], q[1]>>)

\* p + q
RAdd(p, q) == CHOOSE r \in {AddValues(pp, qq) : pp \in {p}, qq \in {q}} : TRUE
\* p - q
RSub(p, q) == CHOOSE r \in {SubValues(pp, qq) : pp \in {p}, qq \in {q}} : TRUE
\* p * q
RMul(p, q) == CHOOSE r \in {MulValues(pp, qq) : pp \in {p}, qq \in {q}} : TRUE
\* p / q for q # 0
RDiv(p, q) == CHOOSE r \in {DivValues(pp, qq) : pp \in {p}, qq \in {q}} : TRUE
\* abs(p)
RAbs(p) == CHOOSE r \in {<<Abs(pp[1]), pp[2]>> : pp \in {p}} : TRUE
\* p < q
RLt(p, q) == \E pp \in {p}, qq \in {q} : pp[1] * qq[2] < qq[1] * pp[2]
RIsZero(p) == p[1] = 0

\* ------------------------------------------------------------ expressions
\* MATH_NAMES: the public names of the math module, with abs and pow
\* (a representative part of dir(math))
MATH_NAMES == {"sin", "cos", "exp", "log", "sqrt", "pi", "e", "abs", "pow"}

\* An expression string: its surrounding whitespace ws = <<leading, trailing>>,
\* the names its evaluation looks up, and the polynomial
\* coef[1] + coef[2]*x + coef[3]*x**2 that it denotes when every name resolves.
Bodies ==
    { [names |-> {"x"},          coef |-> <<-1, 1, 0>>],   \* x - 1
      [names |-> {"x"},          coef |-> <<-2, 0, 1>>],   \* x**2 - 2
      [names |-> {"x", "pow"},   coef |-> <<1, 0, 1>>],    \* pow(x, 2) + 1
      [names |-> {"x"},          coef |-> <<0, 1, 0>>],    \* x
      [names |-> {"x"},          coef |-> <<-1, 2, 0>>],   \* 2*x - 1
      [names |-> {"x"},          coef |-> <<-3, 8, 0>>],   \* 8*x - 3
      [names |-> {"x"},          coef |-> <<0, 2, 0>>],    \* 2*x
      [names |-> {"x"},          coef |-> <<0, -1, 0>>],   \* -x
      [names |-> {},             coef |-> <<1, 0, 0>>],    \* 1
      [names |-> {"__import__"}, coef |-> <<0, 0, 0>>] }   \* __import__('os')
Exprs ==
    { [ws |-> <<0, 0>>, names |-> e.names, coef |-> e.coef] : e \in Bodies }
    \cup { [ws |-> <<1, 1>>, names |-> e.names, coef |-> e.coef] : e \in {b \in Bodies : b.coef[1] = 0} }
\* the expressions tried as a derivative or as g: 1, x, 2*x, -x and __import__('os')
LinearExprs == {e \in Exprs : e.coef[3] = 0 /\ (e.coef[1] = 0 \/ e.coef[2] = 0)}
NoExpr == [ws |-> <<0, 0>>, names |-> {}, coef |-> <<0, 0, 0>>]
NoFn == [expr |-> NoExpr]

\* expr.strip()
strip(expr) == [expr EXCEPT !.ws = <<0, 0>>]

\* make_function with the call's outcome: it only strips and closes over expr
make_function_eager(expr) ==
    [raised |-> ~(expr.names \subseteq MATH_NAMES \cup {"x"}), fn |-> [expr |-> strip(expr)]]
make_function(expr) == [raised |-> FALSE, fn |-> [expr |-> strip(expr)]]

\* the closure f(x): eval(expr, {"__builtins__": None}, local) raises when a
\* name it looks up is neither x nor in MATH_NAMES
Raises(fn) == ~(fn.expr.names \subseteq MATH_NAMES \cup {"x"})
\* ... and otherwise returns float(value): for x = n/d the polynomial's value
\* (coef[1]*d*d + coef[2]*n*d + coef[3]*n*n) / (d*d)
Eval(fn, x) ==
    Norm(fn.expr.coef[1] * x[2] * x[2] + fn.expr.coef[2] * x[1] * x[2] + fn.expr.coef[3] * x[1] * x[1],
         x[2] * x[2])

\* ------------------------------------------------------------------ state
VARIABLES
    pc,        \* "start", "compiled", "loop", "returned", "raised"
    site,      \* "cli" (ZOF_CLI.main) or "web" (app.index)
    method,    \* the solver chosen
    f, df, g,  \* the compiled functions
    tol, max_iter, delta,
    v,         \* the running solver's local variables
    it,        \* how many values the for loop has taken from its range
    logs,      \* the Iteration Log
    ret,       \* the tuple a ZOF_CLI solver returned
    result,    \* the dict index built
    exc,       \* the exception raised, "" when none
    evals      \* the calls of compiled functions so far, in order

vars == <<pc, site, method, f, df, g, tol, max_iter, delta, v, it, logs, ret, result, exc, evals>>

\* the endpoints and initial guesses tried
Points == {Rat(n) : n \in {-1, 0, 1, 2}}
\* the tolerances tried
Tols == {<<1, 8>>, <<1, 2>>, <<3, 1>>}
Deltas == {<<1, 2>>, <<1, 1>>}
CliMethods == {"bisection", "regula_falsi", "secant", "newton_raphson", "fixed_point", "modified_secant"}
WebMethods == {"bisection", "secant", "newton"}

NoLocals ==
    [a |-> Zero, b |-> Zero, fa |-> Zero, fb |-> Zero, c |-> Zero, fc |-> Zero,
     x0 |-> Zero, x1 |-> Zero, x2 |-> Zero, x |-> Zero, x_new |-> Zero,
     err |-> Zero, i |-> 0]
NoRet == [root |-> None, ferr |-> None, iters |-> 0, logs |-> <<>>]
NoResult == [root |-> None, error |-> None, logs |-> <<>>]

Init ==
    /\ pc = "start" /\ site = "" /\ method = ""
    /\ f = NoFn /\ df = NoFn /\ g = NoFn
    /\ tol = Zero /\ max_iter = 0 /\ delta = Zero
    /\ v = NoLocals /\ it = 0 /\ logs = <<>>
    /\ ret = NoRet /\ result = NoResult /\ exc = "" /\ evals = <<>>

\* range(lo, hi) as the sequence of values the for loop takes
range_long(lo, hi) == [k \in 1 .. (IF hi >= lo THEN hi - lo + 1 ELSE 0) |-> lo + k - 1]
range_zero_based(lo, hi) == [k \in 1 .. (IF hi > lo THEN hi - lo ELSE 0) |-> lo + k - 2]
range(lo, hi) == [k \in 1 .. (IF hi > lo THEN hi - lo ELSE 0) |-> lo + k - 1]

\* logs.append(record)
log_keep_last(lg, rec) == <<rec>>
log_append(lg, rec) == Append(lg, rec)

inputs == <<site, method, f, df, g, tol, max_iter, delta>>

\* raise e
Raise(e) == pc' = "raised" /\ exc' = e /\ UNCHANGED <<ret, result>>
\* ZOF_CLI: return root, err, iterations, logs.  app: the solver returns
\* root, err, logs and index stores {'root', 'error', 'logs'}.
Return(root, e, n, lg) ==
    /\ pc' = "returned" /\ exc' = exc
    /\ IF site = "cli"
       THEN ret' = [root |-> root, ferr |-> e, iters |-> n, logs |-> lg] /\ result' = result
       ELSE result' = [root |-> root, error |-> e, logs |-> lg] /\ ret' = ret
\* the loop goes on
Continue == pc' = pc /\ UNCHANGED <<ret, result, exc>>
\* the exception a failing evaluation gives: ZOF_CLI wraps it in ValueError,
\* app lets eval's own exception through
EvalError == IF site = "cli" THEN "ValueError: Error evaluating expression" ELSE "eval: name lookup failed"
Called(fn, xs) == evals \o [k \in 1 .. Len(xs) |-> [fn |-> fn, x |-> xs[k]]]

\* ---------------------------------------------------------- make_function
\* main: choice, expr, f = make_function(expr) (outside the try block)
MakeFunction(s, m, e) ==
    /\ pc = "start"
    /\ site' = s /\ method' = m
    /\ LET r == make_function(e)
       IN  IF r.raised
           THEN /\ f' = f
                /\ pc' = "raised" /\ exc' = "make_function" /\ UNCHANGED <<ret, result>>
           ELSE /\ f' = r.fn
                /\ pc' = "compiled" /\ UNCHANGED <<ret, result, exc>>
    /\ UNCHANGED <<df, g, tol, max_iter, delta, v, it, logs, evals>>

\* the expressions tried as f with method m: all of them with a bracketing
\* method, all but 8*x - 3 with an open one, and those of degree at most 1
\* with modified_secant
ExprsFor(m) ==
    IF m \in {"bisection", "regula_falsi"} THEN Exprs
    ELSE IF m = "modified_secant" THEN {e \in Exprs : e.coef[3] = 0 /\ e.coef[2] # 8}
    ELSE {e \in Exprs : e.coef[2] # 8}

cli_make_function == \E m \in CliMethods : \E e \in ExprsFor(m) : MakeFunction("cli", m, e)
app_make_function == \E m \in WebMethods : \E e \in ExprsFor(m) : MakeFunction("web", m, e)

\* ---------------------------------------------------------------- bisection
\* if fa * fb > 0: raise
invalid_bracket_flipped(fa, fb) == RLt(RMul(fa, fb), Zero)
invalid_bracket(fa, fb) == RLt(Zero, RMul(fa, fb))
\* c = (a + b) / 2.0
midpoint_third(a, b) == RDiv(RAdd(RAdd(a, a), b), Rat(3))
midpoint(a, b) == RDiv(RAdd(a, b), Rat(2))
\* err = abs(b - a) / 2.0
half_width(a, b) == RDiv(RAbs(RSub(b, a)), Rat(2))
\* if abs(fc) < tol or err < tol
bisection_converged_residual_only(fc, err, t) == RLt(RAbs(fc), t)
bisection_converged(fc, err, t) == RLt(RAbs(fc), t) \/ RLt(err, t)
\* if fa * fc < 0: b, fb = c, fc  else: a, fa = c, fc
replace_b(fa, fc) == RLt(RMul(fa, fc), Zero)

\* logs = []; fa, fb = f(a), f(b); the bracket test (and c = a in regula_falsi)
BracketEntry(A, B, T, M) ==
    /\ pc = "compiled"
    /\ tol' = T /\ max_iter' = M
    /\ logs' = <<>> /\ it' = 0
    /\ IF Raises(f)
       THEN /\ evals' = Called("f", <<A>>)
            /\ v' = [v EXCEPT !.a = A, !.b = B]
            /\ Raise(EvalError)
       ELSE LET fa == Eval(f, A)
                fb == Eval(f, B)
            IN  /\ evals' = Called("f", <<A, B>>)
                /\ v' = [v EXCEPT !.a = A, !.b = B, !.fa = fa, !.fb = fb,
                                  !.c = IF method = "regula_falsi" THEN A ELSE @]
                /\ IF invalid_bracket(fa, fb)
                   THEN Raise("ValueError: opposite signs required")
                   ELSE pc' = "loop" /\ UNCHANGED <<ret, result, exc>>
    /\ UNCHANGED <<site, method, f, df, g, delta>>

\* one pass of the body of bisection's for loop (each local is bound once,
\* \E name \in {value}, as an assignment computes it once)
BisectionStep ==
    /\ pc = "loop"
    /\ it < Len(range(1, max_iter + 1))
    /\ \E i \in {range(1, max_iter + 1)[it + 1]}, c \in {midpoint(v.a, v.b)},
          err \in {half_width(v.a, v.b)} :
       \E fc \in {Eval(f, c)} :
       \E lg \in {log_append(logs, [i |-> i, a |-> v.a, b |-> v.b, c |-> c,
                                    fa |-> v.fa, fb |-> v.fb, fc |-> fc, err |-> err])} :
           /\ it' = it + 1
           /\ logs' = lg
           /\ evals' = Called("f", <<c>>)
           /\ IF bisection_converged(fc, err, tol)
              THEN /\ v' = [v EXCEPT !.i = i, !.c = c, !.fc = fc, !.err = err]
                   /\ Return(c, err, i, lg)
              ELSE /\ v' = IF replace_b(v.fa, fc)
                           THEN [v EXCEPT !.i = i, !.c = c, !.fc = fc, !.err = err, !.b = c, !.fb = fc]
                           ELSE [v EXCEPT !.i = i, !.c = c, !.fc = fc, !.err = err, !.a = c, !.fa = fc]
                   /\ Continue
    /\ UNCHANGED inputs

\* the loop ran out: return (a + b) / 2.0, abs(b - a) / 2.0, max_iter, logs
BisectionExhausted ==
    /\ pc = "loop"
    /\ it = Len(range(1, max_iter + 1))
    /\ Return(midpoint(v.a, v.b), half_width(v.a, v.b), max_iter, logs)
    /\ UNCHANGED <<inputs, v, it, logs, evals>>

bisection_call ==
    /\ site = "cli" /\ method = "bisection"
    /\ \E A \in Points, B \in Points, T \in Tols, M \in 1 .. MaxIter : BracketEntry(A, B, T, M)
bisection_step == site = "cli" /\ method = "bisection" /\ BisectionStep
bisection_exhausted == site = "cli" /\ method = "bisection" /\ BisectionExhausted

app_bisection_call ==
    /\ site = "web" /\ method = "bisection"
    /\ \E A \in Points, B \in Points, T \in Tols, M \in 1 .. MaxIter : BracketEntry(A, B, T, M)
app_bisection_step == site = "web" /\ method = "bisection" /\ BisectionStep
app_bisection_exhausted == site = "web" /\ method = "bisection" /\ BisectionExhausted

\* ------------------------------------------------------------- regula_falsi
\* c = (a * fb - b * fa) / (fb - fa)
false_position(a, b, fa, fb) == RDiv(RSub(RMul(a, fb), RMul(b, fa)), RSub(fb, fa))
\* if abs(fc) < tol
regula_falsi_converged(fc, t) == RLt(RAbs(fc), t)

regula_falsi_call ==
    /\ site = "cli" /\ method = "regula_falsi"
    /\ \E A \in Points, B \in Points, T \in Tols, M \in 1 .. MaxIter : BracketEntry(A, B, T, M)

regula_falsi_step ==
    /\ site = "cli" /\ method = "regula_falsi"
    /\ pc = "loop"
    /\ it < Len(range(1, max_iter + 1))
    /\ it' = it + 1
    /\ IF RIsZero(RSub(v.fb, v.fa))
       THEN \* float division by zero
            /\ v' = [v EXCEPT !.i = range(1, max_iter + 1)[it + 1]]
            /\ Raise("ZeroDivisionError: float division by zero")
            /\ UNCHANGED <<logs, evals>>
       ELSE \E i \in {range(1, max_iter + 1)[it + 1]}, c \in {false_position(v.a, v.b, v.fa, v.fb)} :
            \E fc \in {Eval(f, c)} :
            \E err \in {RAbs(fc)} :
            \E lg \in {log_append(logs, [i |-> i, a |-> v.a, b |-> v.b, c |-> c,
                                         fa |-> v.fa, fb |-> v.fb, fc |-> fc, err |-> err])} :
                /\ logs' = lg
                /\ evals' = Called("f", <<c>>)
                /\ IF regula_falsi_converged(fc, tol)
                   THEN /\ v' = [v EXCEPT !.i = i, !.c = c, !.fc = fc, !.err = err]
                        /\ Return(c, err, i, lg)
                   ELSE /\ v' = IF replace_b(v.fa, fc)
                                THEN [v EXCEPT !.i = i, !.c = c, !.fc = fc, !.err = err, !.b = c, !.fb = fc]
                                ELSE [v EXCEPT !.i = i, !.c = c, !.fc = fc, !.err = err, !.a = c, !.fa = fc]
                        /\ Continue
    /\ UNCHANGED inputs

\* the loop ran out: return c, abs(fc), max_iter, logs
regula_falsi_exhausted ==
    /\ site = "cli" /\ method = "regula_falsi"
    /\ pc = "loop"
    /\ it = Len(range(1, max_iter + 1))
    /\ Return(v.c, RAbs(v.fc), max_iter, logs)
    /\ UNCHANGED <<inputs, v, it, logs, evals>>

\* ------------------------------------------------------------------- secant
\* x2 = x1 - f1 * (x1 - x0) / (f1 - f0)
secant_x2(x0, x1, f0, f1) == RSub(x1, RDiv(RMul(f1, RSub(x1, x0)), RSub(f1, f0)))
\* the loop ran out: return x1, abs(x1 - x0), ...
secant_exhausted_stale(x0, x1) == <<x0, RAbs(RSub(x1, x0))>>
secant_exhausted_value(x0, x1) == <<x1, RAbs(RSub(x1, x0))>>

SecantEntry(X0, X1, T, M) ==
    /\ pc = "compiled"
    /\ tol' = T /\ max_iter' = M
    /\ logs' = <<>> /\ it' = 0
    /\ v' = [v EXCEPT !.x0 = X0, !.x1 = X1]
    /\ pc' = "loop"
    /\ UNCHANGED <<site, method, f, df, g, delta, ret, result, exc, evals>>

SecantStep ==
    /\ pc = "loop"
    /\ it < Len(range(1, max_iter + 1))
    /\ it' = it + 1
    /\ \E i \in {range(1, max_iter + 1)[it + 1]} :
           IF Raises(f)
           THEN /\ evals' = Called("f", <<v.x0>>)
                /\ v' = [v EXCEPT !.i = i]
                /\ logs' = logs
                /\ Raise(EvalError)
           ELSE \E f0 \in {Eval(f, v.x0)}, f1 \in {Eval(f, v.x1)} :
                    /\ evals' = Called("f", <<v.x0, v.x1>>)
                    /\ IF RIsZero(RSub(f1, f0))
                       THEN /\ v' = [v EXCEPT !.i = i]
                            /\ logs' = logs
                            /\ Raise("ZeroDivisionError: Division by zero in secant step")
                       ELSE \E x2 \in {secant_x2(v.x0, v.x1, f0, f1)} :
                            \E err \in {RAbs(RSub(x2, v.x1))} :
                            \E lg \in {log_append(logs, [i |-> i, x0 |-> v.x0, x1 |-> v.x1, x2 |-> x2,
                                                         f0 |-> f0, f1 |-> f1, err |-> err])} :
                                /\ logs' = lg
                                /\ IF RLt(err, tol)
                                   THEN /\ v' = [v EXCEPT !.i = i, !.x2 = x2, !.err = err]
                                        /\ Return(x2, err, i, lg)
                                   ELSE /\ v' = [v EXCEPT !.i = i, !.x2 = x2, !.err = err,
                                                          !.x0 = v.x1, !.x1 = x2]
                                        /\ Continue
    /\ UNCHANGED inputs

SecantExhausted ==
    /\ pc = "loop"
    /\ it = Len(range(1, max_iter + 1))
    /\ LET r == secant_exhausted_value(v.x0, v.x1)
       IN  Return(r[1], r[2], max_iter, logs)
    /\ UNCHANGED <<inputs, v, it, logs, evals>>

secant_call ==
    /\ site = "cli" /\ method = "secant"
    /\ \E X0 \in Points, X1 \in Points, T \in Tols, M \in 1 .. MaxIter : SecantEntry(X0, X1, T, M)
secant_step == site = "cli" /\ method = "secant" /\ SecantStep
secant_exhausted == site = "cli" /\ method = "secant" /\ SecantExhausted

app_secant_call ==
    /\ site = "web" /\ method = "secant"
    /\ \E X0 \in Points, X1 \in Points, T \in Tols, M \in 1 .. MaxIter : SecantEntry(X0, X1, T, M)
app_secant_step == site = "web" /\ method = "secant" /\ SecantStep
app_secant_exhausted == site = "web" /\ method = "secant" /\ SecantExhausted

\* ----------------------------------------------------------- newton_raphson
\* x_new = x - fx / dfx
newton_x_new(x, fx, dfx) == RSub(x, RDiv(fx, dfx))

\* df = make_function(df_expr); logs = []; x = x0
NewtonEntry(E, X0, T, M) ==
    /\ pc = "compiled"
    /\ tol' = T /\ max_iter' = M
    /\ logs' = <<>> /\ it' = 0
    /\ v' = [v EXCEPT !.x0 = X0, !.x = X0]
    /\ LET r == make_function(E)
       IN  IF r.raised
           THEN df' = df /\ Raise("make_function")
           ELSE df' = r.fn /\ pc' = "loop" /\ UNCHANGED <<ret, result, exc>>
    /\ UNCHANGED <<site, method, f, g, delta, evals>>

\* index, method == 'newton': the error entry of the result dict,
\* abs(result['root'] - x) if result else None, where result is still the
\* None of the handler's first line
index_newton_error(x) ==
    IF result # NoResult THEN RAbs(RSub(result.root, x)) ELSE None

\* the error a Newton pass hands back: err in newton_raphson, the result
\* dict's error entry in index
newton_error(err) == IF site = "web" THEN index_newton_error(v.x) ELSE err

\* one pass of the Newton loop; final_error is what the caller gets as the
\* error when the pass converges
NewtonStep ==
    /\ pc = "loop"
    /\ it < Len(range(1, max_iter + 1))
    /\ it' = it + 1
    /\ \E i \in {range(1, max_iter + 1)[it + 1]} :
           IF Raises(f)
           THEN /\ evals' = Called("f", <<v.x>>)
                /\ v' = [v EXCEPT !.i = i]
                /\ logs' = logs
                /\ Raise(EvalError)
           ELSE IF Raises(df)
           THEN /\ evals' = evals \o <<[fn |-> "f", x |-> v.x], [fn |-> "df", x |-> v.x]>>
                /\ v' = [v EXCEPT !.i = i]
                /\ logs' = logs
                /\ Raise(EvalError)
           ELSE \E fx \in {Eval(f, v.x)}, dfx \in {Eval(df, v.x)} :
                    /\ evals' = evals \o <<[fn |-> "f", x |-> v.x], [fn |-> "df", x |-> v.x]>>
                    /\ IF RIsZero(dfx)
                       THEN /\ v' = [v EXCEPT !.i = i]
                            /\ logs' = logs
                            /\ Raise("ZeroDivisionError: Zero derivative")
                       ELSE \E x_new \in {newton_x_new(v.x, fx, dfx)} :
                            \E err \in {RAbs(RSub(x_new, v.x))} :
                            \E lg \in {log_append(logs, [i |-> i, x |-> v.x, x_new |-> x_new,
                                                         fx |-> fx, dfx |-> dfx, err |-> err])} :
                                /\ logs' = lg
                                /\ IF RLt(err, tol)
                                   THEN /\ v' = [v EXCEPT !.i = i, !.x_new = x_new, !.err = err]
                                        /\ Return(x_new, newton_error(err), i, lg)
                                   ELSE /\ v' = [v EXCEPT !.i = i, !.x_new = x_new, !.err = err,
                                                          !.x = x_new]
                                        /\ Continue
    /\ UNCHANGED inputs

newton_raphson_call ==
    /\ site = "cli" /\ method = "newton_raphson"
    /\ \E E \in LinearExprs, X0 \in Points, T \in Tols, M \in 1 .. MaxIter : NewtonEntry(E, X0, T, M)

newton_raphson_step == site = "cli" /\ method = "newton_raphson" /\ NewtonStep

\* the loop ran out: return x, err, max_iter, logs
newton_raphson_exhausted ==
    /\ site = "cli" /\ method = "newton_raphson"
    /\ pc = "loop"
    /\ it = Len(range(1, max_iter + 1))
    /\ Return(v.x, v.err, max_iter, logs)
    /\ UNCHANGED <<inputs, v, it, logs, evals>>

index_newton_call ==
    /\ site = "web" /\ method = "newton"
    /\ \E E \in LinearExprs, X0 \in Points, T \in Tols, M \in 1 .. MaxIter : NewtonEntry(E, X0, T, M)

\* one pass of index's inline Newton loop; on err < tol: root = x_new, break,
\* and the result dict is built
index_newton_step == site = "web" /\ method = "newton" /\ NewtonStep

\* the for loop's else: root = x, and the result dict is built
index_newton_exhausted ==
    /\ site = "web" /\ method = "newton"
    /\ pc = "loop"
    /\ it = Len(range(1, max_iter + 1))
    /\ Return(v.x, index_newton_error(v.x), max_iter, logs)
    /\ UNCHANGED <<inputs, v, it, logs, evals>>

\* -------------------------------------------------------------- fixed_point
\* g = make_function(g_expr); logs = []; x = x0
fixed_point_call ==
    /\ site = "cli" /\ method = "fixed_point"
    /\ pc = "compiled"
    /\ \E E \in LinearExprs, X0 \in Points, T \in Tols, M \in 1 .. MaxIter :
        /\ tol' = T /\ max_iter' = M
        /\ logs' = <<>> /\ it' = 0
        /\ v' = [v EXCEPT !.x0 = X0, !.x = X0]
        /\ LET r == make_function(E)
           IN  IF r.raised
               THEN g' = g /\ Raise("make_function")
               ELSE g' = r.fn /\ pc' = "loop" /\ UNCHANGED <<ret, result, exc>>
    /\ UNCHANGED <<site, method, f, df, delta, evals>>

fixed_point_step ==
    /\ site = "cli" /\ method = "fixed_point"
    /\ pc = "loop"
    /\ it < Len(range(1, max_iter + 1))
    /\ it' = it + 1
    /\ evals' = Called("g", <<v.x>>)
    /\ \E i \in {range(1, max_iter + 1)[it + 1]} :
           IF Raises(g)
           THEN /\ v' = [v EXCEPT !.i = i]
                /\ logs' = logs
                /\ Raise(EvalError)
           ELSE \E x_new \in {Eval(g, v.x)} :
                \E err \in {RAbs(RSub(x_new, v.x))} :
                \E lg \in {log_append(logs, [i |-> i, x |-> v.x, x_new |-> x_new, err |-> err])} :
                    /\ logs' = lg
                    /\ IF RLt(err, tol)
                       THEN /\ v' = [v EXCEPT !.i = i, !.x_new = x_new, !.err = err]
                            /\ Return(x_new, err, i, lg)
                       ELSE /\ v' = [v EXCEPT !.i = i, !.x_new = x_new, !.err = err, !.x = x_new]
                            /\ Continue
    /\ UNCHANGED inputs

\* the loop ran out: return x, err, max_iter, logs
fixed_point_exhausted ==
    /\ site = "cli" /\ method = "fixed_point"
    /\ pc = "loop"
    /\ it = Len(range(1, max_iter + 1))
    /\ Return(v.x, v.err, max_iter, logs)
    /\ UNCHANGED <<inputs, v, it, logs, evals>>

\* ---------------------------------------------------------- modified_secant
\* x_new = x - (delta * x * fx) / denom
modified_secant_x_new(x, d, fx, denom) == RSub(x, RDiv(RMul(RMul(d, x), fx), denom))

modified_secant_call ==
    /\ site = "cli" /\ method = "modified_secant"
    /\ pc = "compiled"
    /\ \E X0 \in Points, D \in Deltas, T \in Tols, M \in 1 .. MaxIter :
        /\ tol' = T /\ max_iter' = M /\ delta' = D
        /\ v' = [v EXCEPT !.x0 = X0, !.x = X0]
    /\ logs' = <<>> /\ it' = 0
    /\ pc' = "loop"
    /\ UNCHANGED <<site, method, f, df, g, ret, result, exc, evals>>

modified_secant_step ==
    /\ site = "cli" /\ method = "modified_secant"
    /\ pc = "loop"
    /\ it < Len(range(1, max_iter + 1))
    /\ it' = it + 1
    /\ \E i \in {range(1, max_iter + 1)[it + 1]}, xd \in {RAdd(v.x, RMul(delta, v.x))} :
           IF Raises(f)
           THEN /\ evals' = Called("f", <<v.x>>)
                /\ v' = [v EXCEPT !.i = i]
                /\ logs' = logs
                /\ Raise(EvalError)
           ELSE \E fx \in {Eval(f, v.x)} :
                \E denom \in {RSub(Eval(f, xd), fx)} :
                    /\ evals' = Called("f", <<v.x, xd>>)
                    /\ IF RIsZero(denom)
                       THEN /\ v' = [v EXCEPT !.i = i]
                            /\ logs' = logs
                            /\ Raise("ZeroDivisionError: Denominator zero in modified secant")
                       ELSE \E x_new \in {modified_secant_x_new(v.x, delta, fx, denom)} :
                            \E err \in {RAbs(RSub(x_new, v.x))} :
                            \E lg \in {log_append(logs, [i |-> i, x |-> v.x, x_new |-> x_new,
                                                         fx |-> fx, err |-> err])} :
                                /\ logs' = lg
                                /\ IF RLt(err, tol)
                                   THEN /\ v' = [v EXCEPT !.i = i, !.x_new = x_new, !.err = err]
                                        /\ Return(x_new, err, i, lg)
                                   ELSE /\ v' = [v EXCEPT !.i = i, !.x_new = x_new, !.err = err,
                                                          !.x = x_new]
                                        /\ Continue
    /\ UNCHANGED inputs

\* the loop ran out: return x, err, max_iter, logs
modified_secant_exhausted ==
    /\ site = "cli" /\ method = "modified_secant"
    /\ pc = "loop"
    /\ it = Len(range(1, max_iter + 1))
    /\ Return(v.x, v.err, max_iter, logs)
    /\ UNCHANGED <<inputs, v, it, logs, evals>>

Next ==
    \/ cli_make_function
    \/ app_make_function
    \/ bisection_call
    \/ bisection_step
    \/ bisection_exhausted
    \/ app_bisection_call
    \/ app_bisection_step
    \/ app_bisection_exhausted
    \/ regula_falsi_call
    \/ regula_falsi_step
    \/ regula_falsi_exhausted
    \/ secant_call
    \/ secant_step
    \/ secant_exhausted
    \/ app_secant_call
    \/ app_secant_step
    \/ app_secant_exhausted
    \/ newton_raphson_call
    \/ newton_raphson_step
    \/ newton_raphson_exhausted
    \/ index_newton_call
    \/ index_newton_step
    \/ index_newton_exhausted
    \/ fixed_point_call
    \/ fixed_point_step
    \/ fixed_point_exhausted
    \/ modified_secant_call
    \/ modified_secant_step
    \/ modified_secant_exhausted

Spec == Init /\ [][Next]_vars

\* what a running solver does next: a pass of its loop, or its final return
Running ==
    \/ bisection_step \/ bisection_exhausted
    \/ app_bisection_step \/ app_bisection_exhausted
    \/ regula_falsi_step \/ regula_falsi_exhausted
    \/ secant_step \/ secant_exhausted
    \/ app_secant_step \/ app_secant_exhausted
    \/ newton_raphson_step \/ newton_raphson_exhausted
    \/ index_newton_step \/ index_newton_exhausted
    \/ fixed_point_step \/ fixed_point_exhausted
    \/ modified_secant_step \/ modified_secant_exhausted

\* a solver is synchronous code: once called it keeps running
FairSpec == Spec /\ WF_vars(Running)

\* ------------------------------------------------------------------ claims
Done == pc \in {"returned", "raised"}
Bracketing == {"bisection", "regula_falsi"}
Min(m, n) == IF m < n THEN m ELSE n
Max(m, n) == IF m < n THEN n ELSE m
RLe(p, q) == ~RLt(q, p)
\* 2^k as a rational, k an integer
RECURSIVE Pow2N(_)
Pow2N(k) == IF k = 0 THEN 1 ELSE 2 * Pow2N(k - 1)
Pow2(k) == IF k >= 0 THEN <<Pow2N(k), 1>> ELSE <<1, Pow2N(-k)>>
\* ceil(log2(r)) and floor(log2(r)) for a rational r with 2^-8 < r < 2^8
CeilLog2(r) == CHOOSE k \in -8 .. 8 : RLe(r, Pow2(k)) /\ RLt(Pow2(k - 1), r)
FloorLog2(r) == CHOOSE k \in -8 .. 8 : RLe(Pow2(k), r) /\ RLt(r, Pow2(k + 1))
\* the working estimate a record holds: c, x2 or x_new
Estimate(rec) ==
    IF method \in Bracketing THEN rec.c
    ELSE IF method = "secant" THEN rec.x2
    ELSE rec.x_new

\* C1: every result a ZOF_CLI solver returns has 1 <= iterations_used <=
\* max_iterations, and its log has exactly iterations_used records, with the
\* indices 1, 2, ..., iterations_used in order.
C1_IterationsAndLog ==
    (pc = "returned" /\ site = "cli") =>
        /\ 1 <= ret.iters /\ ret.iters <= max_iter
        /\ Len(ret.logs) = ret.iters
        /\ \A k \in 1 .. Len(ret.logs) : ret.logs[k].i = k
\* a call that converged early, at its second step
C1_Witness ==
    /\ pc = "returned" /\ site = "cli"
    /\ ret.iters = 2 /\ max_iter = 3 /\ Len(ret.logs) = 2

\* C2: when f(a)*f(b) > 0, bisection and regula_falsi raise the bracket
\* error before the loop: no record has been appended, no loop step taken and
\* f has been evaluated at a and at b only.
C2_InvalidBracketBeforeLoop ==
    (method \in Bracketing /\ Len(evals) >= 2 /\ ~Raises(f)
        /\ RLt(Zero, RMul(Eval(f, evals[1].x), Eval(f, evals[2].x)))) =>
        /\ pc = "raised"
        /\ exc = "ValueError: opposite signs required"
        /\ logs = <<>> /\ it = 0
        /\ evals = <<[fn |-> "f", x |-> v.a], [fn |-> "f", x |-> v.b]>>
C2_Witness ==
    /\ method = "regula_falsi" /\ pc = "raised"
    /\ exc = "ValueError: opposite signs required"
    /\ RLt(Zero, RMul(v.fa, v.fb))

\* C3: every call ends (returns or raises) and never takes more than
\* max_iterations loop steps, whether or not the convergence test is ever met.
C3_Terminates == [](it <= max_iter) /\ ((pc = "loop") ~> Done)
\* fixed_point on an oscillating iteration (x, g(x), x, ...) that used up all
\* its steps without converging
C3_Witness ==
    /\ pc = "returned" /\ method = "fixed_point"
    /\ max_iter = MaxIter /\ it = max_iter /\ ret.iters = max_iter
    /\ ~RLt(ret.ferr, tol)
    /\ logs[1].x = logs[3].x /\ logs[1].x # logs[2].x

WidthRatio == RDiv(RSub(ret.logs[1].b, ret.logs[1].a), tol)
\* a bisection call of ZOF_CLI that returned, on a < b with f(a)*f(b) < 0
BisectionReturned ==
    /\ pc = "returned" /\ site = "cli" /\ method = "bisection"
    /\ RLt(ret.logs[1].a, ret.logs[1].b)
    /\ RLt(RMul(ret.logs[1].fa, ret.logs[1].fb), Zero)

\* C5 as claimed: bisection's iterations_used is at most
\* min(ceil(log2((b-a)/tolerance)), max_iterations).
C5_Original ==
    BisectionReturned => ret.iters <= Min(CeilLog2(WidthRatio), max_iter)
\* C5 as amended: bisection's iterations_used is at most
\* min(max(1, floor(log2((b-a)/tolerance)) + 1), max_iterations), the first
\* n >= 1 with (b-a)/2^n < tolerance, capped at max_iterations.
C5_Amended ==
    BisectionReturned => ret.iters <= Min(Max(1, FloorLog2(WidthRatio) + 1), max_iter)
\* (b-a)/tolerance an exact power of two, the width test met one step later
\* than ceil(log2) says, before max_iterations
C5_Witness ==
    /\ BisectionReturned
    /\ CeilLog2(WidthRatio) = FloorLog2(WidthRatio)
    /\ ret.iters = FloorLog2(WidthRatio) + 1
    /\ ret.iters < max_iter

\* C6: Newton-Raphson fails with the zero-derivative error at the step k where
\* df(x) = 0, before computing x_new: the log then holds the records of steps
\* 1 .. k-1 and no record of step k; and no logged step has a zero derivative.
C6_ZeroDerivative ==
    method \in {"newton_raphson", "newton"} =>
        /\ \A k \in 1 .. Len(logs) : ~RIsZero(logs[k].dfx)
        /\ (pc = "raised" /\ exc = "ZeroDivisionError: Zero derivative") =>
              /\ RIsZero(Eval(df, v.x))
              /\ evals[Len(evals)] = [fn |-> "df", x |-> v.x]
              /\ Len(logs) = v.i - 1
              /\ \A k \in 1 .. Len(logs) : logs[k].i = k
              /\ (logs # <<>> => logs[Len(logs)].x_new = v.x)
\* the derivative vanishes at the second iterate or later
C6_Witness ==
    /\ method \in {"newton_raphson", "newton"}
    /\ pc = "raised" /\ exc = "ZeroDivisionError: Zero derivative"
    /\ v.i >= 2 /\ Len(logs) = v.i - 1

\* C7 as claimed: for an expression that looks up a name outside the
\* whitelist, make_function itself raises and the expression is never evaluated.
C7_Original ==
    (pc # "start" /\ Raises(f)) =>
        (pc = "raised" /\ exc = "make_function" /\ evals = <<>>)
\* C7 as amended: make_function never raises and never evaluates the
\* expression; an expression whose evaluation looks up a name outside the
\* whitelist fails at the solver's first call f(x), with the evaluation error,
\* before any Iteration Record is appended.
C7_Amended ==
    /\ exc # "make_function"
    /\ pc = "compiled" => (evals = <<>> /\ exc = "")
    /\ (Raises(f) /\ \E k \in 1 .. Len(evals) : evals[k].fn = "f") =>
          /\ pc = "raised" /\ exc = EvalError
          /\ Len(evals) = 1
          /\ logs = <<>>
C7_Witness ==
    /\ Raises(f) /\ method = "bisection"
    /\ pc = "raised" /\ exc = EvalError
    /\ evals = <<[fn |-> "f", x |-> v.a]>>

\* C8: every successful solve, by a ZOF_CLI solver or by index (bisection,
\* secant, newton), carries a root estimate and a final_error that is a
\* non-negative real number, never None.
C8_FinalErrorReal ==
    pc = "returned" =>
        IF site = "cli"
        THEN IsReal(ret.root) /\ IsReal(ret.ferr) /\ RLe(Zero, ret.ferr)
        ELSE IsReal(result.root) /\ IsReal(result.error) /\ RLe(Zero, result.error)

\* C9: in bisection and regula_falsi every Iteration Record has fa*fb <= 0,
\* also when the initial a or b is an exact root.
C9_BracketMaintained ==
    method \in Bracketing =>
        \A k \in 1 .. Len(logs) : RLe(RMul(logs[k].fa, logs[k].fb), Zero)

\* the last record of a returned log
LastRecord == ret.logs[Len(ret.logs)]
\* C10 as claimed: whenever a ZOF_CLI solver returns, root_estimate and
\* final_error are the working estimate and the err of the last record.
C10_Original ==
    (pc = "returned" /\ site = "cli") =>
        (ret.root = Estimate(LastRecord) /\ ret.ferr = LastRecord.err)
\* bisection returned after its last pass failed the convergence test
BisectionRanOut ==
    /\ method = "bisection"
    /\ ~(RLt(RAbs(LastRecord.fc), tol) \/ RLt(LastRecord.err, tol))
\* C10 as amended: that holds of regula_falsi, secant, newton_raphson,
\* fixed_point and modified_secant on every return and of bisection when it
\* converges; bisection on exhausting max_iterations returns the midpoint and
\* half-width of the bracket left by its last endpoint replacement, which are
\* not logged: final_error is half the last record's err and root_estimate
\* lies final_error away from the last record's c.
C10_Amended ==
    (pc = "returned" /\ site = "cli") =>
        IF BisectionRanOut
        THEN /\ ret.iters = max_iter
             /\ ret.ferr = RDiv(LastRecord.err, Rat(2))
             /\ RAbs(RSub(ret.root, LastRecord.c)) = ret.ferr
        ELSE ret.root = Estimate(LastRecord) /\ ret.ferr = LastRecord.err
\* bisection ran out on a bracket of positive width
C10_Witness ==
    /\ pc = "returned" /\ site = "cli" /\ BisectionRanOut
    /\ ret.root # LastRecord.c /\ ret.ferr # LastRecord.err

====
